---- MODULE Spec2Model ----
(***************************************************************************)
(* A model of two parts of the UPX executable compressor:                  *)
(*   - src/src/filter/auipc.h: the RISC-V AUIPC filter, its scan pass      *)
(*     (F compiled without U), its filter pass (F compiled with U) and its *)
(*     unfilter pass (U);                                                  *)
(*   - src/src/util/membuffer.cpp: MemBuffer (alloc, dealloc, fill,        *)
(*     subref, checkState) and MemBuffer::getSizeForCompression.           *)
(* The three parts have their own specification each (Spec, SpecMB,        *)
(* SpecSize); the variables of the other parts keep their initial value.   *)
(***************************************************************************)
EXTENDS Integers, Sequences, FiniteSets, TLC

VARIABLES
    \* ---- the AUIPC filter (auipc.h)
    f_buf,        \* Filter::buf, the bytes (buf_len is its length)
    f_calls,      \* Filter::calls
    f_noncalls,   \* Filter::noncalls
    f_lastcall,   \* Filter::lastcall
    pc,           \* "idle", or the function whose loop is running: "F" or "U"
    mode,         \* how the running function was compiled: scan, filter, unfilter
    ic,           \* local ic of F and U
    calls,        \* local calls
    noncalls,     \* local noncalls
    lastcall,     \* local lastcall
    input,        \* the bytes the running pass started on
    visited,      \* the iterations of the running pass: <<[ic, kind]>>
    hist,         \* the passes that returned, oldest first
    \* ---- MemBuffer (membuffer.cpp)
    mcheck,       \* use_simple_mcheck(): fixed by the build
    ptr,          \* MemBufferBase::ptr (0 is nullptr)
    size_in_bytes,\* MemBufferBase::size_in_bytes
    heap,         \* the block malloc returned: [base, bytes], or NoBlock
    stats,        \* MemBuffer::stats
    mb_call,      \* the last call made on the MemBuffer
    mb_result,    \* how it ended: "ok" or the exception it threw
    mb_ret,       \* the pointer a successful subref returned, a word
    terminated,   \* std::terminate() or a failed assert ended the process
    frees,        \* the addresses handed to ::free, in order
    clobbered,    \* the guard bytes something else has overwritten
    caught,       \* a checkState() call on this block has thrown
    \* ---- MemBuffer::getSizeForCompression
    sz_args,      \* <<uncompressed_size, extra>> of the last call
    sz_result     \* what it returned, or Throws

filter_vars == <<f_buf, f_calls, f_noncalls, f_lastcall, pc, mode, ic, calls,
                 noncalls, lastcall, input, visited, hist>>
mb_vars == <<mcheck, ptr, size_in_bytes, heap, stats, mb_call, mb_result,
             mb_ret, terminated, frees, clobbered, caught>>
size_vars == <<sz_args, sz_result>>
vars == <<filter_vars, mb_vars, size_vars>>

(***************************************************************************)
(* 32-bit machine words. A word is <<h, l>>, its upper and its lower 16    *)
(* bits as numbers 0..65535; a C int and a C unsigned of the code are both *)
(* such a word (two's complement), and + and - wrap modulo 2^32.           *)
(***************************************************************************)
Half == 65536

\* the word of a number 0 <= n < 2^31
W(n) == <<n \div Half, n % Half>>

\* bitwise operations on halves
RECURSIVE AndH(_, _)
AndH(a, b) == IF a = 0 \/ b = 0 THEN 0
              ELSE (a % 2) * (b % 2) + 2 * AndH(a \div 2, b \div 2)
RECURSIVE XorH(_, _)
XorH(a, b) == IF a = 0 THEN b ELSE IF b = 0 THEN a
              ELSE ((a + b) % 2) + 2 * XorH(a \div 2, b \div 2)

And(a, b) == <<AndH(a[1], b[1]), AndH(a[2], b[2])>>
Xor(a, b) == <<XorH(a[1], b[1]), XorH(a[2], b[2])>>
\* a | b = (a ^ b) + (a & b)
Or(a, b)  == <<XorH(a[1], b[1]) + AndH(a[1], b[1]),
               XorH(a[2], b[2]) + AndH(a[2], b[2])>>
Not(a)    == <<Half - 1 - a[1], Half - 1 - a[2]>>
\* (int) a < 0
IsNeg(a) == a[1] >= Half \div 2
\* a << k, 0 <= k < 32
Shl(a, k) ==
    IF k >= 16 THEN <<(a[2] * (2 ^ (k - 16))) % Half, 0>>
    ELSE <<(a[1] * (2 ^ k) + (a[2] * (2 ^ k)) \div Half) % Half,
           (a[2] * (2 ^ k)) % Half>>
\* a >> k of an unsigned, 0 <= k < 32
Shr(a, k) ==
    IF k >= 16 THEN <<0, a[1] \div (2 ^ (k - 16))>>
    ELSE <<a[1] \div (2 ^ k),
           a[2] \div (2 ^ k) + (a[1] % (2 ^ k)) * (2 ^ (16 - k))>>
\* a >> k of an int: the sign bit is copied in
Sar(a, k) == IF IsNeg(a) THEN Not(Shr(Not(a), k)) ELSE Shr(a, k)
Add(a, b) == LET lo == a[2] + b[2]
                 hi == a[1] + b[1] + (lo \div Half)
             IN  <<hi % Half, lo % Half>>
Sub(a, b) == Add(a, Add(Not(b), W(1)))
\* a < b as unsigned
Ult(a, b) == a[1] < b[1] \/ (a[1] = b[1] /\ a[2] < b[2])
\* the number of a word known to be in 0..2^31-1
Num(w) == w[1] * Half + w[2]
\* the number held in the len bits of w from bit lo up (len <= 16)
Field(w, lo, len) == Shr(w, lo)[2] % (2 ^ len)
\* byte k of a word, byte 0 the least significant
ByteOf(w, k) == Field(w, 8 * k, 8)
\* the word of four bytes, b0 the least significant
WordOf(b0, b1, b2, b3) == <<b3 * 256 + b2, b1 * 256 + b0>>

\* the masks and bits the code names
x1 == W(1)
x3 == W(3)
x7 == W(7)
x1f == W(31)
x7f == W(127)
xff == W(255)
xfff == W(4095)
bit11 == Shl(W(1), 11)
bit31 == Shl(W(1), 31)
wAUIPC == W(23)

(***************************************************************************)
(* Byte access. A buffer is a sequence of bytes; the byte at C offset off  *)
(* is b[off + 1].                                                          *)
(***************************************************************************)
get_le32(b, off) == WordOf(b[off + 1], b[off + 2], b[off + 3], b[off + 4])
get_be32(b, off) == WordOf(b[off + 4], b[off + 3], b[off + 2], b[off + 1])
set_le32(b, off, w) ==
    SubSeq(b, 1, off)
    \o <<ByteOf(w, 0), ByteOf(w, 1), ByteOf(w, 2), ByteOf(w, 3)>>
    \o SubSeq(b, off + 5, Len(b))
set_be32(b, off, w) ==
    SubSeq(b, 1, off)
    \o <<ByteOf(w, 3), ByteOf(w, 2), ByteOf(w, 1), ByteOf(w, 0)>>
    \o SubSeq(b, off + 5, Len(b))
\* *(off + b) = (byte) w
set_byte(b, off, w) == [b EXCEPT ![off + 1] = ByteOf(w, 0)]

(***************************************************************************)
(* auipc.h: the instruction fields.                                        *)
(***************************************************************************)
AUIPC == 23
opf(w) == Num(And(x7f, w))
rd(i_type) == Num(And(x1f, Sar(i_type, 7)))
func3f(i_type) == Num(And(x7, Sar(i_type, 12)))
rs1f(i_type) == Num(And(x1f, Sar(i_type, 15)))

COND(word1) == AUIPC = opf(word1)

CONDf(word2, r_aui) ==
    /\ r_aui = rs1f(word2)
    /\ \/ 3 = opf(word2)
       \/ (103 = opf(word2) /\ 0 = func3f(word2))
       \/ (19 = opf(word2) /\ 0 = func3f(word2))

opu(w) == opf(Sar(w, 12))
func3u(i_type) == Num(And(x7, Sar(i_type, 24)))
rs1u(i_type) == Num(And(x1f, Sar(i_type, 27)))

CONDu(word2, r_aui) ==
    /\ r_aui = rs1u(word2)
    /\ \/ 3 = opu(word2)
       \/ (103 = opu(word2) /\ 0 = func3u(word2))
       \/ (19 = opu(word2) /\ 0 = func3u(word2))

\* the instruction length F and U give the instruction that starts with word1
ilen(word1) ==
    IF 3 = Num(And(x3, Sar(word1, 0)))
    THEN IF 3 = Num(And(x3, Sar(word1, 2))) THEN 6 ELSE 4
    ELSE 2

(***************************************************************************)
(* auipc.h: one iteration of the loop of F (lines 94-149). F is compiled   *)
(* twice: without U it only scans, with U it filters.                      *)
(***************************************************************************)
\* mutant: the stores are compiled into the scan-only F too
filtering_in_scan_too(m) == m \in {"scan", "filter"}

\* #ifdef U in F: the statements that compute addr and store are compiled in
filtering(m) == m = "filter"

\* line 117: int addr = ((~0xfff& word1) + (word2 >>20));
F_addr(word1, word2) == Add(And(Not(xfff), word1), Sar(word2, 20))

\* line 119: if (((word1 <<1) ^ word1) < 0)
F_top2_unequal(word1) == IsNeg(Xor(Shl(word1, 1), word1))

\* mutant: line 110 (++noncalls) is missing
F_kind_without_line_110(word1, word2) ==
    IF ~COND(word1) THEN "skip"
    ELSE IF ~CONDf(word2, rd(word1)) THEN "skip"
    ELSE IF F_top2_unequal(word1) THEN "reject"
    ELSE "accept"

\* lines 104-130: what the iteration counts. "skip": neither counter;
\* "nomatch" and "reject": ++noncalls; "accept": ++calls, lastcall = ic
F_kind(word1, word2) ==
    IF ~COND(word1) THEN "skip"
    ELSE IF ~CONDf(word2, rd(word1)) THEN "nomatch"
    ELSE IF F_top2_unequal(word1) THEN "reject"
    ELSE "accept"

\* mutant: addr += ic (line 126) is done for the rejected pairs too
F_store_hoists_rejected(b, at, word1, word2, kind) ==
    LET r_aui == rd(word1)
        addr1 == Add(F_addr(word1, word2), W(at))
        b1    == set_byte(b, 0 + at, Or(Shl(And(x1, addr1), 7), wAUIPC))
        addr2 == Xor(addr1, bit31)
        b2    == set_be32(b1, 1 + at, addr2)
    IN  set_le32(b2, 4 + at,
                 Or(Or(Shl(word2, 12), Shl(W(r_aui), 7)),
                    And(x7f, Sar(addr2, 1))))

\* mutant: line 137 (addr ^= (1u<<31)) is missing
F_store_without_line_137(b, at, word1, word2, kind) ==
    LET r_aui == rd(word1)
        addr0 == F_addr(word1, word2)
        addr1 == IF kind = "accept" THEN Add(addr0, W(at)) ELSE addr0
        b1    == set_byte(b, 0 + at, Or(Shl(And(x1, addr1), 7), wAUIPC))
        b2    == set_be32(b1, 1 + at, addr1)
    IN  set_le32(b2, 4 + at,
                 Or(Or(Shl(word2, 12), Shl(W(r_aui), 7)),
                    And(x7f, Sar(addr1, 1))))

\* lines 126, 132-139: the bytes F stores when it filters a pair at offset at
F_store(b, at, word1, word2, kind) ==
    LET r_aui == rd(word1)
        addr0 == F_addr(word1, word2)
        addr1 == IF kind = "accept" THEN Add(addr0, W(at)) ELSE addr0
        b1    == set_byte(b, 0 + at, Or(Shl(And(x1, addr1), 7), wAUIPC))
        addr2 == Xor(addr1, bit31)
        b2    == set_be32(b1, 1 + at, addr2)
    IN  set_le32(b2, 4 + at,
                 Or(Or(Shl(word2, 12), Shl(W(r_aui), 7)),
                    And(x7f, Sar(addr2, 1))))

\* mutant: the continue of line 111 is missing
F_buf_without_line_111(b, at, m, kind) ==
    IF filtering(m) /\ kind \in {"nomatch", "reject", "accept"}
    THEN F_store(b, at, get_le32(b, at), get_le32(b, 4 + at), kind)
    ELSE b

\* the buffer after the iteration at offset at
F_buf(b, at, m, kind) ==
    IF filtering(m) /\ kind \in {"reject", "accept"}
    THEN F_store(b, at, get_le32(b, at), get_le32(b, 4 + at), kind)
    ELSE b

\* mutant: ilen = 8 (line 113) is missing
F_ilen_without_line_113(word1, kind) == ilen(word1)

\* lines 96-103, 113: the step of the iteration
F_ilen(word1, kind) == IF kind \in {"reject", "accept"} THEN 8 ELSE ilen(word1)

(***************************************************************************)
(* auipc.h: one iteration of the loop of U (lines 183-230).                *)
(***************************************************************************)
\* lines 204-205
U_addr(b, at, word1) ==
    LET addr == get_be32(b, 1 + at)
    IN  Or(Or(And(Not(xff), addr), Shl(And(x7f, addr), 1)),
           And(x1, Sar(word1, 7)))

\* line 206: if (((addr<<1) ^ addr) < 0)
U_top2_unequal(addr) == IsNeg(Xor(Shl(addr, 1), addr))

\* lines 194-217: what the iteration counts
U_kind(b, at) ==
    LET word1 == get_le32(b, at)
        word2 == get_le32(b, 4 + at)
        r_aui == Num(And(x1f, Sar(word2, 7)))
    IN  IF ~(AUIPC = opf(word1)) THEN "skip"
        ELSE IF ~CONDu(word2, r_aui) THEN "nomatch"
        ELSE IF U_top2_unequal(U_addr(b, at, word1)) THEN "accept"
        ELSE "reject"

\* lines 209, 218-221: the bytes U stores for a pair at offset at
U_store(b, at, word1, word2, kind) ==
    LET r_aui == Num(And(x1f, Sar(word2, 7)))
        addr0 == U_addr(b, at, word1)
        addr1 == IF kind = "accept" THEN Sub(addr0, W(at)) ELSE addr0
        addr2 == Add(addr1, Shl(And(bit11, addr1), 1))
        addr3 == Xor(addr2, bit31)
        b1    == set_le32(b, 0 + at,
                          Or(Or(And(Not(xfff), addr3), Shl(W(r_aui), 7)),
                             wAUIPC))
    IN  set_le32(b1, 4 + at, Or(Shl(addr3, 20), Shr(word2, 12)))

U_buf(b, at, kind) ==
    IF kind \in {"reject", "accept"}
    THEN U_store(b, at, get_le32(b, at), get_le32(b, 4 + at), kind)
    ELSE b

(***************************************************************************)
(* membuffer.cpp: MemBuffer. Addresses are numbers; the heap holds the one *)
(* block malloc gave this MemBuffer, [base, bytes]: bytes[k] is the byte   *)
(* at address base + k - 1. size_t is 32 bits wide here (an ILP32 host)    *)
(* and get_ne32/set_ne32 are little endian (the host's order).             *)
(***************************************************************************)
UPX_RSIZE_MAX == 805306368     \* 0x30000000

Throws(what) == [ok |-> FALSE, value |-> 0, what |-> what]
Returns(v) == [ok |-> TRUE, value |-> v, what |-> "none"]

\* mem_size(element_size, n, extra1, extra2): the checked size
\* element_size * n + extra1 + extra2; throws above UPX_RSIZE_MAX
mem_size(element_size, n, extra1, extra2) ==
    IF \/ element_size = 0 \/ element_size > UPX_RSIZE_MAX
       \/ n > UPX_RSIZE_MAX \/ extra1 > UPX_RSIZE_MAX \/ extra2 > UPX_RSIZE_MAX
    THEN Throws("CantPack")
    ELSE IF n > UPX_RSIZE_MAX \div element_size
    THEN Throws("CantPack")
    ELSE IF element_size * n + extra1 > UPX_RSIZE_MAX
    THEN Throws("CantPack")
    ELSE IF element_size * n + extra1 + extra2 > UPX_RSIZE_MAX
    THEN Throws("CantPack")
    ELSE Returns(element_size * n + extra1 + extra2)

umax(a, b) == IF a > b THEN a ELSE b

\* mutant: the 256 of the first bound (line 94) is missing
getSizeForCompression_without_256(uncompressed_size, extra) ==
    IF uncompressed_size = 0 THEN Throws("CantPack")
    ELSE LET z == uncompressed_size
             bytes0 == mem_size(1, z, 0, 0)
         IN  IF ~bytes0.ok THEN bytes0
             ELSE LET bytes1 == umax(bytes0.value, z + z \div 8)
                      bytes2 == umax(bytes1,
                                     z + (z \div 256)
                                     + (IF z < 128 * 1024
                                        THEN (128 * 1024 - z) \div 2048 ELSE 0))
                  IN  mem_size(1, bytes2, extra, 256)

\* lines 88-100
getSizeForCompression(uncompressed_size, extra) ==
    IF uncompressed_size = 0 THEN Throws("CantPack")
    ELSE LET z == uncompressed_size
             bytes0 == mem_size(1, z, 0, 0)
         IN  IF ~bytes0.ok THEN bytes0
             ELSE LET bytes1 == umax(bytes0.value, z + z \div 8 + 256)
                      bytes2 == umax(bytes1,
                                     z + (z \div 256)
                                     + (IF z < 128 * 1024
                                        THEN (128 * 1024 - z) \div 2048 ELSE 0))
                  IN  mem_size(1, bytes2, extra, 256)

NoBlock == [base |-> 0, bytes |-> <<>>]
SIZE_MAX == Not(W(0))

get_ne32(h, addr) == get_le32(h.bytes, addr - h.base)
set_ne32(h, addr, w) == [h EXCEPT !.bytes = set_le32(h.bytes, addr - h.base, w)]

\* lines 154-156
xfefdbeeb == <<65277, 48875>>
x88224411 == <<34850, 17425>>
PTR_BITS32(p) == W(p)
MAGIC1(p) == Or(Xor(PTR_BITS32(p), xfefdbeeb), x1)
MAGIC2(p) == Or(Xor(Xor(PTR_BITS32(p), xfefdbeeb), x88224411), x1)

\* mutant: the test of ptr (lines 159-160) is missing
checkState_without_line_159(p, size, h, simple_mcheck) ==
    IF p = 0 THEN Returns(0)
    ELSE IF simple_mcheck /\ get_ne32(h, p - 4) # MAGIC1(p)
    THEN Throws("InternalError: memory clobbered before allocated block 1")
    ELSE IF simple_mcheck /\ get_ne32(h, p - 8) # W(size)
    THEN Throws("InternalError: memory clobbered before allocated block 2")
    ELSE IF simple_mcheck /\ get_ne32(h, p + size) # MAGIC2(p)
    THEN Throws("InternalError: memory clobbered past end of allocated block")
    ELSE Returns(0)

\* mutant: the check past the end of the block (lines 168-169) is missing
checkState_without_line_168(p, size, h, simple_mcheck) ==
    IF p = 0 THEN Throws("InternalError: block not allocated")
    ELSE IF simple_mcheck /\ get_ne32(h, p - 4) # MAGIC1(p)
    THEN Throws("InternalError: memory clobbered before allocated block 1")
    ELSE IF simple_mcheck /\ get_ne32(h, p - 8) # W(size)
    THEN Throws("InternalError: memory clobbered before allocated block 2")
    ELSE Returns(0)

\* lines 158-171: checkState() of a MemBuffer with this ptr and size
checkState(p, size, h, simple_mcheck) ==
    IF p = 0 THEN Throws("InternalError: block not allocated")
    ELSE IF simple_mcheck /\ get_ne32(h, p - 4) # MAGIC1(p)
    THEN Throws("InternalError: memory clobbered before allocated block 1")
    ELSE IF simple_mcheck /\ get_ne32(h, p - 8) # W(size)
    THEN Throws("InternalError: memory clobbered before allocated block 2")
    ELSE IF simple_mcheck /\ get_ne32(h, p + size) # MAGIC2(p)
    THEN Throws("InternalError: memory clobbered past end of allocated block")
    ELSE Returns(0)

\* line 126: off + bytes > size_in_bytes || off + bytes < off
fill_out_of_range(off, bytes, size) ==
    Ult(W(size), Add(off, bytes)) \/ Ult(Add(off, bytes), off)

\* mutant: the wrap-around test of line 138 is missing
subref_out_of_range_without_wrap_test(skip, take, size) ==
    Ult(W(size), Add(skip, take))

\* line 138: skip + take > size_in_bytes || skip + take < skip
subref_out_of_range(skip, take, size) ==
    Ult(W(size), Add(skip, take)) \/ Ult(Add(skip, take), skip)

\* n bytes of the same value
RECURSIVE Rep(_, _)
Rep(value, n) == IF n = 0 THEN <<>> ELSE Append(Rep(value, n - 1), value)

\* line 128: memset(addr, value, n) in the block h
memset(h, addr, value, n) ==
    [h EXCEPT !.bytes = SubSeq(h.bytes, 1, addr - h.base)
                        \o Rep(value, n)
                        \o SubSeq(h.bytes, addr - h.base + n + 1, Len(h.bytes))]

\* lines 180-185: the block malloc(malloc_bytes) returns at address base,
\* every byte of it the same arbitrary value
malloc(base, bytes, simple_mcheck, garbage) ==
    [base |-> base,
     bytes |-> Rep(garbage, bytes + (IF simple_mcheck THEN 32 ELSE 4))]

\* lines 189-198: the block with its magic constants, and ptr
alloc_ptr(base, simple_mcheck) == IF simple_mcheck THEN base + 16 ELSE base
alloc_heap(h, bytes, simple_mcheck, counter) ==
    IF simple_mcheck
    THEN LET p  == h.base + 16
             h1 == set_ne32(h, p - 8, W(bytes))
             h2 == set_ne32(h1, p - 4, MAGIC1(p))
             h3 == set_ne32(h2, p + bytes + 0, MAGIC2(p))
         IN  set_ne32(h3, p + bytes + 4, W(counter))
    ELSE h

\* mutant: size_in_bytes (line 189) is set before the test of p (line 187)
size_after_failed_malloc_set_early(bytes) == bytes

\* lines 187-189: size_in_bytes when malloc returned nullptr
size_after_failed_malloc(bytes) == 0

(***************************************************************************)
(* The passes as steps. Start(m) is the call of F or U (lines 82-91 and    *)
(* 175-180), F and U are one iteration each, Return is the end of the      *)
(* function (lines 151-158 and 232-239).                                   *)
(***************************************************************************)
\* mutant: the loop runs while ic <= size - 8
in_loop_up_to_last_8(i, size) == i <= size - 8

\* lines 94 and 183: ic < size - 8
in_loop(i, size) == i < size - 8

MaxPrefix == 1
MaxPasses == 2

Modes == {"scan", "filter", "unfilter"}

\* what an iteration leaves in visited
Visit(at, kind, word1, word2, last) ==
    [ic |-> at, kind |-> kind, word1 |-> word1, word2 |-> word2, last |-> last]

Count(kind, kinds) == IF kind \in kinds THEN 1 ELSE 0

F ==
    /\ pc = "F"
    /\ in_loop(ic, Len(f_buf))
    /\ LET word1 == get_le32(f_buf, ic)
           word2 == get_le32(f_buf, 4 + ic)
           kind  == F_kind(word1, word2)
       IN  /\ f_buf' = F_buf(f_buf, ic, mode, kind)
           /\ ic' = ic + F_ilen(word1, kind)
           /\ calls' = calls + Count(kind, {"accept"})
           /\ noncalls' = noncalls + Count(kind, {"nomatch", "reject"})
           /\ lastcall' = IF kind = "accept" THEN ic ELSE lastcall
           /\ visited' = Append(visited,
                  Visit(ic, kind, word1, word2,
                        IF kind = "skip" THEN ic + 3 ELSE ic + 7))
    /\ UNCHANGED <<f_calls, f_noncalls, f_lastcall, pc, mode, input, hist>>
    /\ UNCHANGED <<mb_vars, size_vars>>

U ==
    /\ pc = "U"
    /\ in_loop(ic, Len(f_buf))
    /\ LET word1 == get_le32(f_buf, ic)
           word2 == get_le32(f_buf, 4 + ic)
           kind  == U_kind(f_buf, ic)
       IN  /\ f_buf' = U_buf(f_buf, ic, kind)
           /\ ic' = ic + F_ilen(word1, kind)
           /\ calls' = calls + Count(kind, {"accept"})
           /\ noncalls' = noncalls + Count(kind, {"nomatch", "reject"})
           /\ lastcall' = IF kind = "accept" THEN ic ELSE lastcall
           /\ visited' = Append(visited, Visit(ic, kind, word1, word2, ic + 7))
    /\ UNCHANGED <<f_calls, f_noncalls, f_lastcall, pc, mode, input, hist>>
    /\ UNCHANGED <<mb_vars, size_vars>>

Start(m) ==
    /\ pc = "idle"
    /\ Len(hist) < MaxPasses
    /\ pc' = IF m = "unfilter" THEN "U" ELSE "F"
    /\ mode' = m
    /\ ic' = 0
    /\ calls' = 0
    /\ noncalls' = 0
    /\ lastcall' = 0
    /\ input' = f_buf
    /\ visited' = <<>>
    /\ UNCHANGED <<f_buf, f_calls, f_noncalls, f_lastcall, hist>>
    /\ UNCHANGED <<mb_vars, size_vars>>

Scan == Start("scan")
Filter == Start("filter")
Unfilter == Start("unfilter")

\* what a pass that returned leaves in hist
Pass == [mode |-> mode, input |-> input, output |-> f_buf, calls |-> calls,
         noncalls |-> noncalls, lastcall |-> lastcall, visited |-> visited]

Return ==
    /\ pc \in {"F", "U"}
    /\ ~in_loop(ic, Len(f_buf))
    /\ f_calls' = calls
    /\ f_noncalls' = noncalls
    /\ f_lastcall' = lastcall
    /\ pc' = "idle"
    /\ hist' = Append(hist, Pass)
    /\ UNCHANGED <<f_buf, mode, ic, calls, noncalls, lastcall, input, visited>>
    /\ UNCHANGED <<mb_vars, size_vars>>

(***************************************************************************)
(* The calls on one MemBuffer as steps. What is not a call of the class:   *)
(* Clobber, some other code writing a byte of the guard words (as the test *)
(* of lines 298-305 does).                                                 *)
(***************************************************************************)
MaxBytes == 1
MaxAllocs == 2

\* the sizes alloc is called with: 0, the small ones, one above the maximum
AllocSizes == (0..MaxBytes) \cup {UPX_RSIZE_MAX + 1}
\* where malloc puts a block, and the byte a fresh block is made of (no
\* byte of a block is read before alloc or fill wrote it)
Bases == {4096, 4160}
Garbage == {251}
FillValues == {255}
\* the <<off, bytes>> and <<skip, take>> fill and subref are called with on
\* a buffer of size n: at the end of it, one past it, and wrapping around
Requests(n) ==
    {<<W(0), W(n)>>, <<W(n), W(0)>>, <<W(0), W(n + 1)>>, <<W(n), W(1)>>,
     <<W(n + 1), W(0)>>, <<SIZE_MAX, W(0)>>, <<SIZE_MAX, W(1)>>,
     <<W(1), SIZE_MAX>>}
    \cup (IF n > 0 THEN {<<W(n - 1), W(1)>>} ELSE {})
\* the guard bytes Clobber writes, as offsets from ptr: the first byte of
\* the size word, the byte before the payload, the byte after the payload
ClobberAt(size) == {0 - 8, 0 - 1, size}

Call(op, a, b) == [op |-> op, a |-> a, b |-> b,
                   pre |-> [ptr |-> ptr, size_in_bytes |-> size_in_bytes,
                            heap |-> heap]]

\* lines 173-209
Alloc ==
    /\ ~terminated
    /\ stats.global_alloc_counter < MaxAllocs
    /\ \E bytes \in AllocSizes, base \in Bases \cup {0}, garbage \in Garbage :
        /\ mb_call' = Call("alloc", W(0), W(0))
        /\ mb_ret' = W(0)
        /\ IF ptr # 0 \/ size_in_bytes # 0 \/ bytes = 0
           THEN \* a failed assert (lines 175-178)
                /\ terminated' = TRUE
                /\ mb_result' = "abort"
                /\ UNCHANGED <<ptr, size_in_bytes, heap, stats, clobbered,
                               caught>>
           ELSE IF ~mem_size(1, bytes, 0, 0).ok
           THEN /\ mb_result' = mem_size(1, bytes, 0, 0).what
                /\ UNCHANGED <<ptr, size_in_bytes, heap, stats, terminated,
                               clobbered, caught>>
           ELSE IF base = 0
           THEN /\ mb_result' = "OutOfMemoryException"
                /\ size_in_bytes' = size_after_failed_malloc(bytes)
                /\ UNCHANGED <<ptr, heap, stats, terminated, clobbered,
                               caught>>
           ELSE LET h == alloc_heap(malloc(base, bytes, mcheck, garbage),
                                    bytes, mcheck, stats.global_alloc_counter)
                    p == alloc_ptr(base, mcheck)
                IN  /\ size_in_bytes' = bytes
                    /\ heap' = h
                    /\ ptr' = p
                    /\ stats' = [stats EXCEPT
                            !.global_alloc_counter = @ + 1,
                            !.global_total_bytes = @ + bytes,
                            !.global_total_active_bytes = @ + bytes]
                    /\ mb_result' = IF checkState(p, bytes, h, mcheck).ok
                                    THEN "ok"
                                    ELSE checkState(p, bytes, h, mcheck).what
                    /\ clobbered' = {} /\ caught' = FALSE
                    /\ UNCHANGED terminated
    /\ UNCHANGED <<mcheck, frees>>
    /\ UNCHANGED <<filter_vars, size_vars>>

\* lines 239-244: the block with its magic constants cleared
dealloc_heap(h, p, size, simple_mcheck) ==
    IF simple_mcheck
    THEN set_ne32(set_ne32(set_ne32(set_ne32(h, p - 8, W(0)), p - 4, W(0)),
                           p + size, W(0)), p + size + 4, W(0))
    ELSE h
\* lines 245-247: the address handed to ::free
dealloc_free(p, simple_mcheck) == IF simple_mcheck THEN p - 16 ELSE p

\* mutant: shall_check (line 219) is false
dealloc_check_skipped(p, size, h, simple_mcheck) == Returns(0)

\* lines 219-223: the checkState() dealloc makes inside its try block
dealloc_check(p, size, h, simple_mcheck) == checkState(p, size, h, simple_mcheck)

\* mutant: ptr = nullptr (line 248) is missing
dealloc_ptr_kept(p) == p

\* line 248: ptr after a dealloc that freed the block
dealloc_ptr(p) == 0

\* lines 211-249
Dealloc ==
    /\ ~terminated
    /\ mb_call' = Call("dealloc", W(0), W(0))
    /\ mb_ret' = W(0)
    /\ IF ptr = 0
       THEN /\ mb_result' = "ok"
            /\ UNCHANGED <<ptr, size_in_bytes, heap, stats, terminated, frees,
                           clobbered, caught>>
       ELSE IF ~dealloc_check(ptr, size_in_bytes, heap, mcheck).ok
       THEN \* std::terminate() (lines 223-230)
            /\ terminated' = TRUE
            /\ mb_result' = "terminate"
            /\ UNCHANGED <<ptr, size_in_bytes, heap, stats, frees, clobbered, caught>>
       ELSE /\ stats' = [stats EXCEPT
                    !.global_dealloc_counter = @ + 1,
                    !.global_total_active_bytes = @ - size_in_bytes]
            /\ frees' = Append(frees, dealloc_free(ptr, mcheck))
            \* the block is the allocator's again
            /\ heap' = NoBlock
            /\ ptr' = dealloc_ptr(ptr)
            /\ size_in_bytes' = 0
            /\ mb_result' = "ok"
            /\ clobbered' = {} /\ caught' = FALSE
            /\ UNCHANGED terminated
    /\ UNCHANGED mcheck
    /\ UNCHANGED <<filter_vars, size_vars>>

\* lines 122-130
Fill ==
    /\ ~terminated
    /\ \E req \in Requests(size_in_bytes), value \in FillValues :
        LET state == checkState(ptr, size_in_bytes, heap, mcheck)
            off == req[1]
            bytes == req[2]
        IN  /\ mb_call' = Call("fill", off, bytes)
            /\ mb_ret' = W(0)
            /\ IF ~state.ok
               THEN /\ mb_result' = state.what
                    /\ caught' = (caught \/ ptr # 0)
                    /\ UNCHANGED heap
               ELSE IF fill_out_of_range(off, bytes, size_in_bytes)
               THEN /\ mb_result' = "CantPack: MemBuffer::fill out of range"
                    /\ UNCHANGED <<heap, caught>>
               ELSE /\ mb_result' = "ok"
                    /\ heap' = IF Num(bytes) > 0
                               THEN memset(heap, ptr + Num(off), value, Num(bytes))
                               ELSE heap
                    /\ UNCHANGED caught
    /\ UNCHANGED <<mcheck, ptr, size_in_bytes, stats, terminated, frees,
                   clobbered>>
    /\ UNCHANGED <<filter_vars, size_vars>>

\* lines 134-147
Subref ==
    /\ ~terminated
    /\ \E req \in Requests(size_in_bytes) :
        LET state == checkState(ptr, size_in_bytes, heap, mcheck)
            skip == req[1]
            take == req[2]
        IN  /\ mb_call' = Call("subref", skip, take)
            /\ IF ~state.ok
               THEN /\ mb_result' = state.what
                    /\ caught' = (caught \/ ptr # 0)
                    /\ mb_ret' = W(0)
               ELSE IF subref_out_of_range(skip, take, size_in_bytes)
               THEN /\ mb_result' = "CantPack: MemBuffer::subref out of range"
                    /\ mb_ret' = W(0)
                    /\ UNCHANGED caught
               ELSE /\ mb_result' = "ok"
                    /\ mb_ret' = Add(W(ptr), skip)
                    /\ UNCHANGED caught
    /\ UNCHANGED <<mcheck, ptr, size_in_bytes, heap, stats, terminated, frees,
                   clobbered>>
    /\ UNCHANGED <<filter_vars, size_vars>>

\* lines 158-171
CheckState ==
    /\ ~terminated
    /\ mb_call' = Call("checkState", W(0), W(0))
    /\ mb_ret' = W(0)
    /\ LET state == checkState(ptr, size_in_bytes, heap, mcheck)
       IN  /\ mb_result' = IF state.ok THEN "ok" ELSE state.what
           /\ caught' = (caught \/ (ptr # 0 /\ ~state.ok))
    /\ UNCHANGED <<mcheck, ptr, size_in_bytes, heap, stats, terminated, frees,
                   clobbered>>
    /\ UNCHANGED <<filter_vars, size_vars>>

\* the byte at address addr of the block with its lowest bit flipped
flip(h, addr) ==
    [h EXCEPT !.bytes[addr - h.base + 1] =
        IF @ % 2 = 0 THEN @ + 1 ELSE @ - 1]

\* lines 298-305: other code overwrites a guard byte, or puts it back
Clobber ==
    /\ ~terminated
    /\ mcheck /\ ptr # 0
    /\ \E at \in ClobberAt(size_in_bytes) :
        /\ heap' = flip(heap, ptr + at)
        /\ clobbered' = IF at \in clobbered THEN clobbered \ {at}
                        ELSE clobbered \cup {at}
        /\ mb_call' = Call("clobber", W(0), W(0))
    /\ mb_result' = "ok"
    /\ mb_ret' = W(0)
    /\ UNCHANGED <<mcheck, ptr, size_in_bytes, stats, terminated, frees, caught>>
    /\ UNCHANGED <<filter_vars, size_vars>>

(***************************************************************************)
(* The buffers the passes are run on: up to MaxPrefix short instructions,  *)
(* then two words (an AUIPC and what follows it, or a 6-byte instruction), *)
(* then nothing or 8 bytes more, so that the two words are the last 8      *)
(* bytes or lie before them; and regions in which they reach into the last *)
(* 8 bytes, and regions shorter than 8 bytes.                              *)
(***************************************************************************)
BytesOf(w) == <<ByteOf(w, 0), ByteOf(w, 1), ByteOf(w, 2), ByteOf(w, 3)>>

\* lines 40-43: imm[31:12] | r_aui | AUIPC
AuipcWord(imm20, r_aui) == Or(Shl(W(imm20), 12), W(r_aui * 128 + AUIPC))
\* lines 44-46: imm[11:0] | rs1 | func3 | rd | opcode
ITypeWord(imm12, rs1, func3, rd_, opcode) ==
    Or(Shl(W(imm12), 20), W(rs1 * 32768 + func3 * 4096 + rd_ * 128 + opcode))

C_NOP == <<1, 0>>                          \* a 2-byte instruction
LONE_AUIPC == BytesOf(AuipcWord(1, 1))     \* an AUIPC no consumer follows
PrefixInsns == {C_NOP, LONE_AUIPC}

RECURSIVE PrefixesOf(_)
PrefixesOf(n) ==
    IF n = 0 THEN {<<>>}
    ELSE LET shorter == PrefixesOf(n - 1)
         IN  shorter \cup {p \o i : p \in shorter, i \in PrefixInsns}
Prefixes == PrefixesOf(MaxPrefix)

Imm20s == {0, 262143, 262144, 786432, 1048575}
Regs == {1, 10}
Imm12s == {4, 2048, 4095}

Consumers(r) ==
    {ITypeWord(imm, r, 2, 5, 3) : imm \in Imm12s}
    \cup {ITypeWord(imm, r, 0, 1, 103) : imm \in Imm12s}
    \cup {ITypeWord(imm, r, 0, r, 19) : imm \in Imm12s}
NonConsumers(r) ==
    { ITypeWord(4, r, 1, 1, 103),      \* opcode of JALR, func3 = 1
      ITypeWord(4, r, 2, 8, 35),       \* a STORE
      ITypeWord(4, r + 1, 0, 1, 19),   \* an ADDI of another register
      W(12288) }                       \* 0x00003000: passes CONDu, not CONDf

Pairs(r) ==
    {BytesOf(AuipcWord(imm20, r)) \o BytesOf(word2) :
        imm20 \in Imm20s, word2 \in Consumers(r) \cup NonConsumers(r)}
Bodies ==
    UNION {Pairs(r) : r \in Regs}
    \cup {<<31, 0, 0, 0, 0, 0, 1, 0>>}  \* a 6-byte instruction, then c.nop
Tails == {<<>>, <<0, 0, 0, 0, 0, 0, 0, 0>>}
\* regions shorter than 8 bytes: empty, an AUIPC word, a pair cut short
ShortInputs == {<<>>, <<23, 5, 0, 0>>, <<23, 5, 0, 0, 19, 5, 69>>}
\* regions of 9 bytes: two words and one byte more
NineByteInputs == {body \o <<0>> : body \in Bodies}
Inputs == {p \o body \o t : p \in Prefixes, body \in Bodies, t \in Tails}
          \cup NineByteInputs \cup ShortInputs

InitFilter ==
    /\ f_calls = 0 /\ f_noncalls = 0 /\ f_lastcall = 0
    /\ pc = "idle" /\ mode = "scan"
    /\ ic = 0 /\ calls = 0 /\ noncalls = 0 /\ lastcall = 0
    /\ visited = <<>> /\ hist = <<>>
    /\ input = <<>>

\* a MemBuffer after its constructor (ptr and size_in_bytes are zero)
InitMBIdle ==
    /\ ptr = 0 /\ size_in_bytes = 0
    /\ heap = NoBlock
    /\ stats = [global_alloc_counter |-> 0, global_dealloc_counter |-> 0,
                global_total_bytes |-> 0, global_total_active_bytes |-> 0]
    /\ mb_call = [op |-> "none", a |-> W(0), b |-> W(0),
                  pre |-> [ptr |-> 0, size_in_bytes |-> 0, heap |-> NoBlock]]
    /\ mb_result = "ok" /\ mb_ret = W(0)
    /\ terminated = FALSE
    /\ frees = <<>>
    /\ clobbered = {} /\ caught = FALSE

\* no call of getSizeForCompression yet
InitSizeIdle == sz_args = <<0, 0>> /\ sz_result = [ok |-> TRUE, value |-> 0, what |-> "no call"]

Init ==
    /\ f_buf \in Inputs
    /\ InitFilter
    /\ mcheck = TRUE
    /\ InitMBIdle
    /\ InitSizeIdle

Next == Scan \/ Filter \/ Unfilter \/ F \/ U \/ Return

Spec == Init /\ [][Next]_vars

\* getSizeForCompression: the sizes it is called with
MaxSmallSize == 40
Sizes == (0..MaxSmallSize)
         \cup {256, 1024, 131071, 131072, 131073, 1048576, 715827428,
               715827429, UPX_RSIZE_MAX, UPX_RSIZE_MAX + 1}
Extras == {0, 1, 256, UPX_RSIZE_MAX - 513, UPX_RSIZE_MAX - 512}

\* lines 88-100: one call
GetSizeForCompression ==
    /\ \E uncompressed_size \in Sizes, extra \in Extras :
        /\ sz_args' = <<uncompressed_size, extra>>
        /\ sz_result' = getSizeForCompression(uncompressed_size, extra)
    /\ UNCHANGED <<filter_vars, mb_vars>>

InitSize ==
    /\ InitSizeIdle
    /\ mcheck = TRUE
    /\ InitMBIdle
    /\ f_buf = <<>>
    /\ InitFilter

NextSize == GetSizeForCompression

SpecSize == InitSize /\ [][NextSize]_vars

\* MemBuffer: either build, no pass of the filter runs
InitMB ==
    /\ mcheck \in BOOLEAN
    /\ InitMBIdle
    /\ f_buf = <<>>
    /\ InitFilter
    /\ InitSizeIdle

NextMB == Alloc \/ Dealloc \/ Fill \/ Subref \/ CheckState \/ Clobber

SpecMB == InitMB /\ [][NextMB]_vars

(***************************************************************************)
(* The claims about the filter.                                            *)
(***************************************************************************)
\* the passes that returned, and the one that runs (as far as it got)
Running == [mode |-> mode, input |-> input, output |-> f_buf, calls |-> calls,
            noncalls |-> noncalls, lastcall |-> lastcall, visited |-> visited]
Passes == {hist[i] : i \in 1..Len(hist)}
         \cup (IF pc = "idle" THEN {} ELSE {Running})

\* the visits of a pass, and those whose first word has opcode AUIPC
Visits(p) == {p.visited[j] : j \in 1..Len(p.visited)}
AuipcVisits(p) == {v \in Visits(p) : opf(v.word1) = AUIPC}
\* an AUIPC word followed by a compatible consumer word
CompatiblePair(v) == COND(v.word1) /\ CONDf(v.word2, rd(v.word1))
Window(b, at) == SubSeq(b, at + 1, at + 8)

\* C1 (as claimed): a filter pass followed by an unfilter pass gives back the
\* bytes the filter pass started on
RoundTrip ==
    \A i \in 1..(Len(hist) - 1) :
        (hist[i].mode = "filter" /\ hist[i + 1].mode = "unfilter")
        => hist[i + 1].output = hist[i].input

\* C2: a scan pass never changes a byte of the buffer, while it runs and
\* when it has returned
ScanNeverWrites ==
    \A p \in Passes : p.mode = "scan" => p.output = p.input
\* a scan pass that returned and counted a pair the filter would rewrite
ScanNeverWrites_witness ==
    \E p \in Passes : p.mode = "scan" /\ pc = "idle" /\ p.calls = 1

\* C3: in every mode and after every iteration, calls + noncalls is the
\* number of visited positions whose first word has opcode 0x17
CounterConservation ==
    \A p \in Passes :
        /\ p.calls + p.noncalls = Cardinality(AuipcVisits(p))
        /\ p.calls >= 0 /\ p.noncalls >= 0
\* two passes that returned: the first counted a call and visited a position
\* that counts for neither, the second counted a noncall
CounterConservation_witness ==
    /\ Len(hist) = 2
    /\ hist[1].calls = 1 /\ hist[2].noncalls = 1
    /\ Visits(hist[1]) # AuipcVisits(hist[1])

\* the magnitude of the signed 32-bit value a is below 2^30
Below1GiB(a) ==
    \/ Field(a, 30, 2) = 0
    \/ (Field(a, 30, 2) = 3 /\ a # Shl(W(3), 30))

\* C4 (as claimed): scan and filter count a compatible pair in calls when
\* the magnitude of its displacement is below 2^30, and in noncalls otherwise
DisplacementBoundary ==
    \A p \in Passes : p.mode \in {"scan", "filter"} =>
        LET pairs == {v \in Visits(p) : CompatiblePair(v)}
            near  == {v \in pairs : Below1GiB(F_addr(v.word1, v.word2))}
        IN  /\ p.calls = Cardinality(near)
            /\ p.noncalls >= Cardinality(pairs \ near)

\* a compatible pair the displacement-range guard of F rejects: the top two
\* bits of word1 are unequal
RejectedPair(v) == CompatiblePair(v) /\ Field(v.word1, 30, 2) \in {1, 2}

StoredAddr(b, at) ==
    WordOf((b[at + 5] % 128) * 2 + (b[at + 1] \div 128),
           b[at + 4], b[at + 3], b[at + 2])

StartsWithNearPair(b) ==
    /\ Len(b) >= 8
    /\ LET word1 == get_le32(b, 0)
           word2 == get_le32(b, 4)
       IN  /\ COND(word1) /\ CONDf(word2, rd(word1))
           /\ Field(word1, 30, 2) = 0
           /\ ~IsNeg(word2)

\* what C6 says of the filter pass hist[i] and of the pass after it
EndToEndAt(i) ==
    /\ hist[i].calls = 1
    /\ hist[i].lastcall = 0
    /\ get_le32(hist[i].output, 0) # get_le32(hist[i].input, 0)
    /\ get_le32(hist[i].output, 4) # get_le32(hist[i].input, 4)
    /\ (i < Len(hist) /\ hist[i + 1].mode = "unfilter")
       => hist[i + 1].output = hist[i].input

InRange(skip, take, n) == skip[1] = 0 /\ take[1] = 0 /\ skip[2] + take[2] <= n
\* the last call was made on an allocated buffer whose guards nobody overwrote
OnIntactBuffer == mb_call.pre.ptr # 0 /\ clobbered = {}

\* C7: on an allocated buffer of size N, fill and subref succeed exactly when
\* skip + take <= N without wrapping around; a failing call changes neither
\* the content nor pointer and size and returns no pointer
BoundsCheck ==
    (mb_call.op \in {"fill", "subref"} /\ OnIntactBuffer)
    => /\ (mb_result = "ok")
          <=> InRange(mb_call.a, mb_call.b, mb_call.pre.size_in_bytes)
       /\ mb_result # "ok"
          => /\ ptr = mb_call.pre.ptr
             /\ size_in_bytes = mb_call.pre.size_in_bytes
             /\ heap = mb_call.pre.heap
             /\ mb_ret = W(0)

\* a subref whose skip + take wraps around to zero failed
BoundsCheck_witness ==
    /\ mb_call.op = "subref" /\ OnIntactBuffer
    /\ mb_call.a = W(1) /\ mb_call.b = SIZE_MAX
    /\ mb_result # "ok"
    /\ ptr = mb_call.pre.ptr /\ heap = mb_call.pre.heap

\* the guard words as they are stored around the payload
StoredSize == get_ne32(heap, ptr - 8)
PreGuard == get_ne32(heap, ptr - 4)
PostGuard == get_ne32(heap, ptr + size_in_bytes)

\* C8: in guard mode checkState() of an allocated buffer succeeds exactly when
\* no guard byte is overwritten (overwritten and put back counts as not), and
\* exactly when size word, pre-guard and post-guard are as alloc stored them
GuardDetection ==
    (mb_call.op = "checkState" /\ mcheck /\ ptr # 0)
    => /\ (mb_result = "ok") <=> (clobbered = {})
       /\ (mb_result = "ok")
          <=> /\ StoredSize = W(size_in_bytes)
              /\ PreGuard = MAGIC1(ptr)
              /\ PostGuard = MAGIC2(ptr)

\* checkState() succeeds on a block on which it has failed before
GuardDetection_witness ==
    /\ mb_call.op = "checkState" /\ mcheck /\ ptr # 0
    /\ mb_result = "ok" /\ caught /\ clobbered = {}

\* C10: the buffer is unallocated (null, size 0) or allocated (non-null,
\* size > 0, in guard mode the guard words consistent unless other code
\* overwrote them); an alloc that threw leaves it unallocated
LifecycleInvariant ==
    /\ \/ ptr = 0 /\ size_in_bytes = 0 /\ heap = NoBlock
       \/ /\ ptr # 0 /\ size_in_bytes > 0
          /\ (mcheck /\ clobbered = {})
             => /\ StoredSize = W(size_in_bytes)
                /\ PreGuard = MAGIC1(ptr)
                /\ PostGuard = MAGIC2(ptr)
    /\ (mb_call.op = "alloc" /\ mb_result \notin {"ok", "abort"})
       => ptr = 0 /\ size_in_bytes = 0

\* malloc returned nullptr to an alloc that followed an alloc and a dealloc
LifecycleInvariant_witness ==
    /\ mb_call.op = "alloc" /\ mb_result = "OutOfMemoryException"
    /\ stats.global_dealloc_counter > 0
    /\ ptr = 0 /\ size_in_bytes = 0

(***************************************************************************)
(* The claim about getSizeForCompression.                                  *)
(***************************************************************************)
\* the size as the claim gives it
ClaimedSize(z, e) ==
    LET a == z + z \div 8 + 256
        b == z + z \div 256 + (IF z < 131072 THEN (131072 - z) \div 2048 ELSE 0)
    IN  (IF a > b THEN a ELSE b) + e + 256
SizeCalled == sz_result.what # "no call"

\* C9: getSizeForCompression(z, e) returns the claimed size when z >= 1 and
\* the size is at most 0x30000000, and throws otherwise; with e = 0 it gives
\* 513, 800, 1664, 1180160 for 1, 256, 1024, 1048576, the maximum for
\* 715827428 and throws for 715827429
SizeBound ==
    SizeCalled
    => LET z == sz_args[1]
           e == sz_args[2]
       IN  /\ IF z >= 1 /\ ClaimedSize(z, e) <= UPX_RSIZE_MAX
              THEN sz_result.ok /\ sz_result.value = ClaimedSize(z, e)
              ELSE ~sz_result.ok
           /\ sz_args = <<1, 0>> => sz_result.value = 513
           /\ sz_args = <<256, 0>> => sz_result.value = 800
           /\ sz_args = <<1024, 0>> => sz_result.value = 1664
           /\ sz_args = <<1048576, 0>> => sz_result.value = 1180160
           /\ sz_args = <<715827428, 0>> => sz_result.value = UPX_RSIZE_MAX
           /\ sz_args = <<715827429, 0>> => ~sz_result.ok

\* the largest size that is still accepted gave the maximum
SizeBound_witness ==
    /\ sz_args = <<715827428, 0>>
    /\ sz_result.ok /\ sz_result.value = UPX_RSIZE_MAX

(***************************************************************************)
(* More claims about MemBuffer.                                            *)
(***************************************************************************)
\* C11: on an unallocated buffer (never allocated, deallocated, or after an
\* alloc that threw) checkState(), fill and subref throw for all arguments,
\* return no pointer and leave pointer, size and memory as they were
UnallocatedUseDetected ==
    (mb_call.op \in {"checkState", "fill", "subref"} /\ mb_call.pre.ptr = 0)
    => /\ mb_result \notin {"ok", "abort", "terminate"}
       /\ mb_ret = W(0)
       /\ ptr = 0 /\ size_in_bytes = 0
       /\ heap = mb_call.pre.heap /\ heap = NoBlock

\* a subref of zero bytes at offset 0 on a buffer that was deallocated
UnallocatedUseDetected_witness ==
    /\ mb_call.op = "subref" /\ mb_call.pre.ptr = 0
    /\ mb_call.a = W(0) /\ mb_call.b = W(0)
    /\ stats.global_dealloc_counter > 0
    /\ mb_result # "ok" /\ mb_ret = W(0)

\* the counters and the calls of ::free of the one MemBuffer: a block is
\* freed for every counted dealloc, never more often than blocks were
\* allocated, and the block in use is the one not freed yet
FreeCounting ==
    /\ Len(frees) = stats.global_dealloc_counter
    /\ stats.global_dealloc_counter <= stats.global_alloc_counter
    /\ (ptr = 0) <=> (stats.global_alloc_counter = stats.global_dealloc_counter)
    /\ (ptr # 0) <=> (stats.global_alloc_counter = stats.global_dealloc_counter + 1)
    /\ stats.global_total_active_bytes = size_in_bytes
    /\ (ptr = 0) => (heap = NoBlock /\ size_in_bytes = 0)
\* a step that is a call of dealloc()
DeallocStep == mb_call'.op = "dealloc" /\ mb_call' # mb_call
DeallocIntact == ptr # 0 /\ (mcheck => clobbered = {})

\* C12: dealloc() on an unallocated buffer changes nothing; on an allocated
\* buffer with intact guards it frees the block once, counts one dealloc and
\* leaves the buffer unallocated; no block is freed twice
FreesOnce ==
    /\ []FreeCounting
    /\ [][ (DeallocStep /\ ptr = 0)
           => /\ mb_result' = "ok"
              /\ UNCHANGED <<ptr, size_in_bytes, heap, stats, frees, terminated>>
         ]_vars
    /\ [][ (DeallocStep /\ DeallocIntact)
           => /\ mb_result' = "ok"
              /\ frees' = Append(frees, heap.base)
              /\ stats'.global_dealloc_counter = stats.global_dealloc_counter + 1
              /\ stats'.global_alloc_counter = stats.global_alloc_counter
              /\ ptr' = 0 /\ size_in_bytes' = 0 /\ heap' = NoBlock
         ]_vars

\* a dealloc() that did nothing, after two blocks were allocated and freed
FreesOnce_witness ==
    /\ mb_call.op = "dealloc" /\ mb_call.pre.ptr = 0
    /\ Len(frees) = 2 /\ stats.global_alloc_counter = 2
    /\ ptr = 0 /\ mb_result = "ok"

\* the last call was made on an allocated buffer in guard mode while a guard
\* byte was overwritten
OnCorruptedBuffer == mb_call.pre.ptr # 0 /\ mcheck /\ clobbered # {}
LastCallLeftBufferAlone ==
    /\ ptr = mb_call.pre.ptr
    /\ size_in_bytes = mb_call.pre.size_in_bytes
    /\ heap = mb_call.pre.heap

\* C16: with corrupted guard words checkState(), fill and subref throw to
\* the caller and leave pointer and size unchanged; dealloc() ends the
\* process with nothing counted, no guard cleared and nothing freed
TwoCorruptionRegimes ==
    /\ []( (mb_call.op \in {"checkState", "fill", "subref"} /\ OnCorruptedBuffer)
           => /\ mb_result \notin {"ok", "abort", "terminate"}
              /\ ~terminated
              /\ mb_ret = W(0)
              /\ LastCallLeftBufferAlone )
    /\ [][ (DeallocStep /\ ptr # 0 /\ mcheck /\ clobbered # {})
           => /\ terminated' /\ mb_result' = "terminate"
              /\ UNCHANGED <<ptr, size_in_bytes, heap, stats, frees>>
         ]_vars

\* dealloc() ended the process on a block whose corruption a call before
\* had reported to its caller
TwoCorruptionRegimes_witness ==
    /\ mb_call.op = "dealloc" /\ OnCorruptedBuffer
    /\ terminated /\ caught
    /\ ptr # 0 /\ frees = <<>>

(***************************************************************************)
(* More claims about the filter.                                           *)
(***************************************************************************)
\* the offsets of the visits of a pass, in order, and those of a kind
OffsetsOf(p) == [j \in 1..Len(p.visited) |-> p.visited[j].ic]
OffsetsOfKind(p, kinds) == {v.ic : v \in {w \in Visits(p) : w.kind \in kinds}}
SameCounters(p, q) ==
    /\ p.calls = q.calls /\ p.noncalls = q.noncalls /\ p.lastcall = q.lastcall

\* C13 (as claimed): the unfilter pass over the output of a filter pass
\* visits the same offsets, takes for a rewritten pair the offsets the filter
\* rewrote, for a hoisted pair the offsets the filter hoisted, and reports the
\* same calls, noncalls and lastcall
SameDecisions ==
    \A i \in 1..(Len(hist) - 1) :
        (hist[i].mode = "filter" /\ hist[i + 1].mode = "unfilter")
        => /\ OffsetsOf(hist[i + 1]) = OffsetsOf(hist[i])
           /\ OffsetsOfKind(hist[i + 1], {"accept", "reject"})
              = OffsetsOfKind(hist[i], {"accept", "reject"})
           /\ OffsetsOfKind(hist[i + 1], {"accept"})
              = OffsetsOfKind(hist[i], {"accept"})
           /\ SameCounters(hist[i + 1], hist[i])

\* the kinds of the visits of a pass, in order
KindsOf(p) == [j \in 1..Len(p.visited) |-> p.visited[j].kind]
Returned == {hist[i] : i \in 1..Len(hist)}

\* C14: a scan pass and a filter pass started on the same content visit the
\* same offsets, classify them alike and report the same calls, noncalls
\* and lastcall
SameClassification ==
    \A p \in Returned, q \in Returned :
        (p.mode = "scan" /\ q.mode = "filter" /\ p.input = q.input)
        => /\ OffsetsOf(p) = OffsetsOf(q)
           /\ KindsOf(p) = KindsOf(q)
           /\ SameCounters(p, q)

\* a scan pass and then a filter pass that rewrote a pair and went on
SameClassification_witness ==
    /\ Len(hist) = 2
    /\ hist[1].mode = "scan" /\ hist[2].mode = "filter"
    /\ hist[1].input = hist[2].input
    /\ hist[2].output # hist[2].input
    /\ hist[2].calls = 1
    /\ Len(hist[2].visited) > 1

\* the offsets where a pass found an AUIPC word and a compatible consumer
WindowsOf(p) == {v.ic : v \in {w \in Visits(p) : CompatiblePair(w)}}
\* the byte indexes inside the windows that start at the offsets ws
Covered(ws) == UNION {w..(w + 7) : w \in ws}
SameByte(p, k) == p.output[k + 1] = p.input[k + 1]
\* what C15 says of the bytes outside and inside the windows
FrameOf(p) ==
    LET ws == WindowsOf(p)
    IN  /\ Len(p.output) = Len(p.input)
        /\ \A k \in (0..(Len(p.input) - 1)) \ Covered(ws) : SameByte(p, k)
        /\ \A w \in ws : p.output[w + 1] % 128 = AUIPC

\* C15 (as claimed): the filter pass changes only bytes inside the windows,
\* keeps the opcode bits of a window's first byte, and the last 8 bytes of
\* the buffer are outside every window
FilterFrameLast8 ==
    \A p \in Passes : p.mode = "filter" =>
        /\ FrameOf(p)
        /\ \A k \in 0..(Len(p.input) - 1) :
            k >= Len(p.input) - 8 => SameByte(p, k)

\* C15 (amended): the same, but of the last 8 bytes only those outside the
\* windows are unchanged: a window starts before size - 8 and may reach up
\* to the last byte but one
FilterFrame ==
    \A p \in Passes : p.mode = "filter" =>
        /\ FrameOf(p)
        /\ \A w \in WindowsOf(p) : w < Len(p.input) - 8
        /\ Len(p.input) > 0 => SameByte(p, Len(p.input) - 1)

\* a filter pass that returned and rewrote a pair reaching into the last 8
\* bytes of a region of 9 bytes
FilterFrame_witness ==
    \E p \in Returned :
        /\ p.mode = "filter" /\ Len(p.input) = 9
        /\ WindowsOf(p) = {0}
        /\ \E k \in 1..7 : ~SameByte(p, k)

\* C17: every byte index a pass reads or writes lies in [0, size), also
\* for sizes below 8; the first position is 0, the index advances by 2, 4, 6
\* or 8, a position is examined only when ic < size - 8, and a pass makes at
\* most size / 2 steps
MemorySafe ==
    \A p \in Passes :
        LET size == Len(p.input)
            n == Len(p.visited)
        IN  /\ Len(p.output) = size
            /\ \A j \in 1..n :
                /\ 0 <= p.visited[j].ic
                /\ p.visited[j].ic < size - 8
                /\ p.visited[j].ic <= p.visited[j].last
                /\ p.visited[j].last < size
            /\ n > 0 => p.visited[1].ic = 0
            /\ \A j \in 1..(n - 1) :
                p.visited[j + 1].ic - p.visited[j].ic \in {2, 4, 6, 8}
            /\ 2 * n <= size
            /\ size <= 8 => n = 0

\* an unfilter pass that returned and read up to the last byte but one
MemorySafe_witness ==
    \E p \in Returned :
        /\ p.mode = "unfilter"
        /\ \E v \in Visits(p) : v.last = Len(p.input) - 2

====
